---- MODULE Spec2Model ----
(***************************************************************************)
(* helm-spray: the weighted-wave upgrade scheduler (pkg/helmspray,         *)
(* Spray.Spray / upgrade / wait), the root command that starts it and the  *)
(* dependency resolver it consumes.                                        *)
(*                                                                         *)
(* One behaviour is one invocation.  The external collaborators (helm      *)
(* upgrade, helm list, kubectl readiness probes) answer                    *)
(* nondeterministically.                                                   *)
(***************************************************************************)
EXTENDS Integers, Sequences, FiniteSets, TLC

\* ---------------------------------------------------------------- bounds
MaxUnits == 2
MaxWeight == 2
MaxReplicas == 2

\* ------------------------------------------------------ program constants
sleepTime == 5

\* Names of the sub-charts an umbrella chart may declare, in declaration order.
UnitNames == <<"a", "b", "c", "d">>

\* --timeout values exercised (seconds).
Timeouts == {0, 4, 10}

\* Names that may be given to --target / --exclude ("zz" matches no sub-chart).
FilterLists == {<<>>, <<"a">>, <<"zz">>}

VARIABLES
    pc,               \* position of the invocation
    err,              \* reason of the abort, "none" while running
    chart,            \* chart.Metadata.Dependencies: seq of [Name, Alias, Tags]
    chartValues,      \* values.Merge: the coalesced default values of the chart
    providedValues,   \* values.Merge: the values given by -f / --set
    values,           \* merged values: [weight: usedName -> value, tags: map]
    ValuesOpts,       \* Spray.ValuesOpts.Values: the --set arguments, in order
    cluster,          \* the workloads a kubectl probe reads, by kind and name
    listing,          \* the names of the releases helm.List returns
    PrefixReleases,   \* Spray.PrefixReleases
    PrefixReleasesWithNamespace, \* Spray.PrefixReleasesWithNamespace
    Namespace,        \* Spray.Namespace
    Targets,          \* Spray.Targets
    Excludes,         \* Spray.Excludes
    DryRun,           \* Spray.DryRun
    Timeout,          \* Spray.Timeout
    deps,             \* result of dependencies.Get
    i,                \* Spray(): loop variable, the current weight
    k,                \* upgrade(): position in the range over deps
    shouldWait,       \* upgrade(): local
    firstInWeight,    \* upgrade(): local
    deployments,      \* Spray.deployments
    statefulSets,     \* Spray.statefulSets
    jobs,             \* Spray.jobs
    waited,           \* wait(): loop variable i (seconds slept so far)
    doneDeployments,  \* wait(): local
    doneStatefulSets, \* wait(): local
    doneJobs,         \* wait(): local
    calls,            \* log of the helm.UpgradeWithValues calls made
    visited,          \* log of the weights upgrade() was invoked for
    awaited,          \* weights whose wait() was entered
    passed,           \* weights whose wait() returned nil
    rounds,           \* poll rounds performed by the current wait()
    probed,           \* some kubectl readiness probe was issued
    logged,           \* what upgrade() logged about the releases it upgrades
    exitCode,         \* the exit code of the process, Running before it ends
    snapshot,         \* part_014: the workloads of the namespace known to Spray
    polled            \* the kinds the last step of wait() has probed

inputs == <<chart, chartValues, providedValues, values, ValuesOpts, cluster,
            listing, PrefixReleases, PrefixReleasesWithNamespace, Namespace,
            Targets, Excludes, DryRun, Timeout>>
upgradeLocals == <<k, shouldWait, firstInWeight>>
accumulators == <<deployments, statefulSets, jobs>>
waitLocals == <<waited, doneDeployments, doneStatefulSets, doneJobs, rounds, polled>>
history == <<calls, visited, awaited, passed, probed>>
vars == <<pc, err, inputs, deps, i, upgradeLocals, accumulators, waitLocals, history,
          logged, exitCode, snapshot>>

\* ------------------------------------------------------------- helpers
Range(s) == {s[j] : j \in 1..Len(s)}

Min(S) == CHOOSE x \in S : \A y \in S : x <= y

\* ------------------------------------------------- dependencies.Get

\* Go's int(float64): truncation towards zero.  Numbers are held in tenths.
IntOfFloat(t) == IF t >= 0 THEN t \div 10 ELSE -((-t) \div 10)

\* Variant of WeightOf: the sign of the integer is not tested.
WeightOfSigned(v) ==
    IF v.ty = "missing" THEN [ok |-> FALSE, w |-> 0]
    ELSE IF v.ty = "json.Number"
         THEN IF v.n % 10 # 0 THEN [ok |-> FALSE, w |-> 0]
              ELSE [ok |-> TRUE, w |-> v.n \div 10]
    ELSE IF v.ty = "float64" THEN [ok |-> TRUE, w |-> IntOfFloat(v.n)]
    ELSE [ok |-> FALSE, w |-> 0]

\* The weight conversion of Get for one value found by values.PathValue:
\* [ok, w].  ty "missing" is PathValue's error (no such key).
WeightOf(v) ==
    IF v.ty = "missing" THEN [ok |-> FALSE, w |-> 0]
    ELSE IF v.ty = "json.Number"
         THEN IF v.n % 10 # 0 THEN [ok |-> FALSE, w |-> 0]
              ELSE IF v.n \div 10 < 0 THEN [ok |-> FALSE, w |-> 0]
                   ELSE [ok |-> TRUE, w |-> v.n \div 10]
    ELSE IF v.ty = "float64"
         THEN IF IntOfFloat(v.n) < 0 THEN [ok |-> FALSE, w |-> 0]
              ELSE [ok |-> TRUE, w |-> IntOfFloat(v.n)]
    ELSE [ok |-> FALSE, w |-> 0]

UsedNameOf(req) == IF req.Alias = "" THEN req.Name ELSE req.Alias

\* Variant of TargetedOf: the exclude list is not looked at.
TargetedOfTargetsOnly(usedName, targets, excludes) ==
    IF Len(targets) > 0 THEN usedName \in Range(targets) ELSE TRUE

\* Variant of TargetedOf: the exclude list is looked at first.
TargetedOfExcludesFirst(usedName, targets, excludes) ==
    IF Len(excludes) > 0 THEN usedName \notin Range(excludes)
    ELSE IF Len(targets) > 0 THEN usedName \in Range(targets)
    ELSE TRUE

TargetedOf(usedName, targets, excludes) ==
    IF Len(targets) > 0 THEN usedName \in Range(targets)
    ELSE IF Len(excludes) > 0 THEN usedName \notin Range(excludes)
    ELSE TRUE

\* A value of the "tags" table as the YAML parser returns it: its Go type and
\* its text.  BoolTrue is the only value that Go's v == true accepts.
BoolTrue == [ty |-> "bool", v |-> "true"]

BoolFalse == [ty |-> "bool", v |-> "false"]

StringTrue == [ty |-> "string", v |-> "true"]

\* Variant of AllowedByTagsOf: the value of the tag is not looked at.
AllowedByTagsOfAnyValue(req, providedTags) ==
    IF Len(req.Tags) = 0 THEN TRUE
    ELSE \E t \in Range(req.Tags) : t \in DOMAIN providedTags

\* providedTags is the "tags" table of the values (a function from tag to value).
AllowedByTagsOf(req, providedTags) ==
    IF Len(req.Tags) = 0 THEN TRUE
    ELSE \E t \in Range(req.Tags) :
            t \in DOMAIN providedTags /\ providedTags[t] = BoolTrue

DependencyOf(req, vals, targets, excludes, releasePrefix) ==
    [Name |-> req.Name,
     Alias |-> req.Alias,
     UsedName |-> UsedNameOf(req),
     Targeted |-> TargetedOf(UsedNameOf(req), targets, excludes),
     HasTags |-> Len(req.Tags) > 0,
     AllowedByTags |-> AllowedByTagsOf(req, vals.tags),
     Weight |-> WeightOf(vals.weight[UsedNameOf(req)]).w,
     CorrespondingReleaseName |-> releasePrefix \o UsedNameOf(req)]

\* Get: the dependency list, or the failure on the first sub-chart whose weight
\* cannot be computed (log.ErrorAndExit ends the process there).
Get(ch, vals, targets, excludes, releasePrefix) ==
    LET bad == {j \in 1..Len(ch) : ~WeightOf(vals.weight[UsedNameOf(ch[j])]).ok}
    IN IF bad # {}
       THEN [ok |-> FALSE, unit |-> UsedNameOf(ch[Min(bad)]), deps |-> <<>>]
       ELSE [ok |-> TRUE, unit |-> "",
             deps |-> [j \in 1..Len(ch) |->
                         DependencyOf(ch[j], vals, targets, excludes, releasePrefix)]]

\* ------------------------------------------------- pkg/helmspray helpers

\* Retrieve the highest weight (0 for an empty list).
maxWeight(ds) ==
    IF Len(ds) = 0 THEN 0
    ELSE CHOOSE m \in {ds[j].Weight : j \in 1..Len(ds)} :
            \A j \in 1..Len(ds) : ds[j].Weight <= m

\* The names of list that are the UsedName of no dependency, by position.
Unmatched(ds, list) ==
    {n \in 1..Len(list) : \A j \in 1..Len(ds) : list[n] # ds[j].UsedName}

\* Variant of checkTargetsAndExcludes: every name is accepted.
checkNothing(ds, targets, excludes) == [ok |-> TRUE, name |-> ""]

\* checkTargetsAndExcludes: only the targets are looked at when there are some.
checkTargetsAndExcludes(ds, targets, excludes) ==
    IF Len(targets) > 0
    THEN IF Unmatched(ds, targets) # {}
         THEN [ok |-> FALSE, name |-> targets[Min(Unmatched(ds, targets))]]
         ELSE [ok |-> TRUE, name |-> ""]
    ELSE IF Len(excludes) > 0 /\ Unmatched(ds, excludes) # {}
         THEN [ok |-> FALSE, name |-> excludes[Min(Unmatched(ds, excludes))]]
         ELSE [ok |-> TRUE, name |-> ""]

\* Variants of Upgradable: the weight is not compared; Targeted is not tested.
UpgradableAnyWeight(d, currentWeight) == d.Targeted /\ d.AllowedByTags = TRUE

UpgradableUntargeted(d, currentWeight) ==
    d.AllowedByTags = TRUE /\ d.Weight = currentWeight

\* Variant of Upgradable: a release that helm already lists is left alone.
UpgradableUnlessListed(d, currentWeight) ==
    /\ d.Targeted /\ d.AllowedByTags = TRUE /\ d.Weight = currentWeight
    /\ d.CorrespondingReleaseName \notin listing

\* Variant of Upgradable: the tags are not looked at.
UpgradableWhateverTags(d, currentWeight) ==
    d.Targeted /\ d.Weight = currentWeight

\* The condition under which upgrade() upgrades a dependency for currentWeight.
Upgradable(d, currentWeight) ==
    d.Targeted /\ d.AllowedByTags = TRUE /\ d.Weight = currentWeight

\* Variant of Pending: the dependency upgraded last is looked at again.
PendingWithLast(ds, from, currentWeight) ==
    {j \in (IF from > 1 THEN from - 1 ELSE 1)..Len(ds) : Upgradable(ds[j], currentWeight)}

\* The positions upgrade() still has to upgrade, from position from on.
Pending(ds, from, currentWeight) ==
    {j \in from..Len(ds) : Upgradable(ds[j], currentWeight)}

\* Variant of StatusAccepted: the status is not looked at.
StatusAcceptedAlways(dryRun, status) == TRUE

\* The test of upgrade() on what helm returned: the release is accepted.
StatusAccepted(dryRun, status) == dryRun \/ status = "deployed"

\* Variant of WaitContinues: the bound is included.
WaitContinuesInclusive(w, timeout) == w <= timeout

\* The condition of the polling loop of wait(): another round is made.
WaitContinues(w, timeout) == w < timeout

\* The test of wait() after its loop: the barrier failed.
TimedOut(dd, ds, dj) == ~dd \/ ~ds \/ ~dj

\* Variants of BarrierDue: the dry-run test is inverted; shouldWait is not
\* tested; DryRun is not tested.
BarrierDueInverted(sw, dryRun) == sw /\ dryRun

BarrierDueAlways(sw, dryRun) == ~dryRun

BarrierDueIgnoringDryRun(sw, dryRun) == sw

\* The test of Spray() after upgrade(): the barrier is entered.
BarrierDue(sw, dryRun) == sw /\ ~dryRun

\* Variant of depValuesSet: the sub-charts that are not targeted are left out.
RECURSIVE depValuesSetTargeted(_, _)
depValuesSetTargeted(ds, usedName) ==
    IF ds = <<>> THEN ""
    ELSE (IF ~Head(ds).Targeted THEN ""
          ELSE Head(ds).UsedName
               \o (IF Head(ds).UsedName = usedName THEN ".enabled=true,"
                   ELSE ".enabled=false,"))
         \o depValuesSetTargeted(Tail(ds), usedName)

\* upgrade(): the "<dependency>.enabled" flags for the upgrade of the
\* dependency usedName, over all the dependencies.
RECURSIVE depValuesSet(_, _)
depValuesSet(ds, usedName) ==
    IF ds = <<>> THEN ""
    ELSE Head(ds).UsedName
         \o (IF Head(ds).UsedName = usedName THEN ".enabled=true,"
             ELSE ".enabled=false,")
         \o depValuesSet(Tail(ds), usedName)

\* Variant of valuesSet: the flags come before the --set values of the user.
valuesSetFlagsFirst(userValues, flags) == <<flags>> \o userValues

\* upgrade(): the --set values of the user, then the flags.
valuesSet(userValues, flags) == Append(userValues, flags)

\* helm.UpgradeWithValues: the --set arguments of the helm command line.
RECURSIVE SetArgs(_)
SetArgs(vs) ==
    IF vs = <<>> THEN <<>>
    ELSE <<"--set", Head(vs)>> \o SetArgs(Tail(vs))

\* ------------------------------------------------- collaborators

\* What helm upgrade may print as manifest for the release of sub-chart u:
\* documents separated by "---", each of some kind, or not decodable.
Manifests(u) ==
    { << [kind |-> "Deployment", name |-> u] >>,
      << [kind |-> "undecodable", name |-> ""],
         [kind |-> "Job", name |-> u \o "-job"],
         [kind |-> "StatefulSet", name |-> u \o "-db"] >>,
      << [kind |-> "Service", name |-> u] >> }

\* What helm.UpgradeWithValues may return.
HelmResults(u) ==
    {[err |-> TRUE, status |-> "", manifest |-> <<>>]}
    \cup {[err |-> FALSE, status |-> s, manifest |-> m] :
            s \in {"deployed", "failed"}, m \in Manifests(u)}

\* The names of the documents of one kind, were the loop over the documents
\* left at the first one that cannot be decoded.
RECURSIVE NamesOfUntilUndecodable(_, _)
NamesOfUntilUndecodable(m, kind) ==
    IF m = <<>> \/ Head(m).kind = "undecodable" THEN <<>>
    ELSE (IF Head(m).kind = kind THEN <<Head(m).name>> ELSE <<>>)
         \o NamesOfUntilUndecodable(Tail(m), kind)

\* The names of the documents of one kind, in manifest order (the type
\* assertions of upgrade(); an undecodable document matches none).
RECURSIVE NamesOf(_, _)
NamesOf(m, kind) ==
    IF m = <<>> THEN <<>>
    ELSE (IF Head(m).kind = kind THEN <<Head(m).name>> ELSE <<>>)
         \o NamesOf(Tail(m), kind)

\* ------------------------------------------------- initial states

WeightValues ==
    {[ty |-> "float64", n |-> 10 * w] : w \in (-1)..MaxWeight}
    \cup {[ty |-> "string", n |-> 0]}

TagLists == {<<>>, <<"t">>}

TagTables == {<<>>, [t \in {"t"} |-> BoolTrue]}

Charts ==
    UNION {[1..n -> {[Name |-> nm, Alias |-> "", Tags |-> tg] :
                        nm \in Range(UnitNames), tg \in TagLists}] : n \in 0..MaxUnits}

\* A chart declares the sub-charts UnitNames[1], UnitNames[2], ... in order.
WellNamed(ch) == \A j \in 1..Len(ch) : ch[j].Name = UnitNames[j]

\* No map of values.
NoValues == [weight |-> <<>>, tags |-> <<>>]

\* An invocation without -f / --set: the merged values are those of the chart.
\* The statuses of the workloads are not tracked, the probes answer freely.
Unprovided ==
    /\ chartValues = values
    /\ providedValues = NoValues
    /\ ValuesOpts = <<>>
    /\ cluster = <<>>

\* No release is listed and the releases get no prefix; helm passes the
\* namespace "default" when none is given.
NoPrefix ==
    /\ listing = {}
    /\ PrefixReleases = ""
    /\ PrefixReleasesWithNamespace = FALSE
    /\ Namespace = "default"

\* part_014: the maps s.deployments, s.statefulsets and s.jobs before Spray()
\* makes them.
NoSnapshot == [deployment |-> {}, statefulset |-> {}, job |-> {}]

\* wait(): no kind is probed.
NoPolled == [deployment |-> FALSE, statefulset |-> FALSE, job |-> FALSE]

\* The exit code of a process that has not ended.
Running == -1

\* The state of a Spray value before Spray() has done anything.
Start ==
    /\ err = "none"
    /\ deps = <<>>
    /\ i = 0
    /\ k = 1
    /\ shouldWait = FALSE
    /\ firstInWeight = TRUE
    /\ deployments = <<>>
    /\ statefulSets = <<>>
    /\ jobs = <<>>
    /\ waited = 0
    /\ doneDeployments = FALSE
    /\ doneStatefulSets = FALSE
    /\ doneJobs = FALSE
    /\ calls = <<>>
    /\ visited = <<>>
    /\ awaited = {}
    /\ passed = {}
    /\ rounds = 0
    /\ probed = FALSE
    /\ logged = <<>>
    /\ exitCode = Running
    /\ snapshot = NoSnapshot
    /\ polled = NoPolled

\* An invocation starts at the root command or at the exported Spray().
Init ==
    /\ pc \in {"cli", "spray"}
    /\ chart \in {ch \in Charts : WellNamed(ch)}
    /\ \E ws \in [Range(UnitNames) -> WeightValues], tt \in TagTables :
          /\ \A j \in (Len(chart) + 1)..Len(UnitNames) :
                ws[UnitNames[j]] = [ty |-> "float64", n |-> 0]
          /\ values = [weight |-> ws, tags |-> tt]
    /\ Unprovided
    /\ Targets \in FilterLists
    /\ Excludes \in FilterLists
    /\ DryRun \in BOOLEAN
    /\ Timeout \in Timeouts
    /\ NoPrefix
    /\ Start

\* The invocations on an umbrella chart of three sub-charts whose weights are
\* 0, 2 and 5 in some order.
GapWeights == {0, 2, 5}

InitGaps ==
    /\ pc \in {"cli", "spray"}
    /\ chart = [j \in 1..3 |-> [Name |-> UnitNames[j], Alias |-> "", Tags |-> <<>>]]
    /\ \E ws \in [Range(UnitNames) -> {[ty |-> "float64", n |-> 10 * w] : w \in GapWeights}] :
          /\ {ws[UnitNames[j]].n : j \in 1..3} = {10 * w : w \in GapWeights}
          /\ ws[UnitNames[4]] = [ty |-> "float64", n |-> 0]
          /\ values = [weight |-> ws, tags |-> <<>>]
    /\ Unprovided
    /\ Targets \in FilterLists
    /\ Excludes \in FilterLists
    /\ DryRun \in BOOLEAN
    /\ Timeout \in Timeouts
    /\ NoPrefix
    /\ Start

\* ------------------------------------------------- errors returned

ErrBothPrefixes == "cannot use both --prefix-releases and --prefix-releases-with-namespace together"
ErrBothFilters == "cannot use both --target and --exclude together"

ErrLoad == "loading chart"

ErrGet == "analyzing dependencies"

ErrList == "listing releases"

ErrCheck == "checking targets and excludes"

ErrUpgrade == "calling helm upgrade"

ErrStatus == "status returned by helm differs from \"deployed\", spray interrupted"

ErrTimeout == "timed out waiting for liveness and readiness"

\* ------------------------------------------------- actions

\* Variant of Abort: the error is noted and the run goes on.
AbortIgnored(reason) ==
    /\ pc' = pc
    /\ err' = reason

\* return err: Spray() ends with the error.
Abort(reason) ==
    /\ pc' = "aborted"
    /\ err' = reason

\* Spray(): the for loop reaches weight w: either upgrade(w) is entered or the
\* loop is over and Spray() returns nil.
LoopAt(w) ==
    /\ i' = w
    /\ IF w <= maxWeight(deps)
       THEN /\ pc' = "upgrade"
            /\ k' = 1
            /\ shouldWait' = FALSE
            /\ firstInWeight' = TRUE
            /\ visited' = Append(visited, w)
       ELSE /\ pc' = "completed"
            /\ UNCHANGED <<upgradeLocals, visited>>

\* cmd.NewRootCmd, RunE: the checks on the flags, then s.Spray().
RunE ==
    /\ pc = "cli"
    /\ IF PrefixReleasesWithNamespace /\ PrefixReleases # ""
       THEN Abort(ErrBothPrefixes)
       ELSE IF Len(Targets) > 0 /\ Len(Excludes) > 0
       THEN Abort(ErrBothFilters)
       ELSE pc' = "spray" /\ UNCHANGED err
    /\ UNCHANGED <<logged, exitCode, snapshot, inputs, deps, i, upgradeLocals, accumulators, waitLocals, history>>

\* Spray(): the prefix of the release names.
releasePrefix(withNamespace, namespace, prefix) ==
    IF withNamespace /\ Len(namespace) > 0 THEN namespace \o "-"
    ELSE IF Len(prefix) > 0 THEN prefix \o "-"
    ELSE ""

\* Spray(): loader.Load, values.Merge, dependencies.Get.
SprayGet ==
    /\ pc = "spray"
    /\ \E loaded \in BOOLEAN :
          IF ~loaded
          THEN Abort(ErrLoad) /\ UNCHANGED deps
          ELSE LET got == Get(chart, values, Targets, Excludes,
                              releasePrefix(PrefixReleasesWithNamespace,
                                            Namespace, PrefixReleases))
               IN IF got.ok
                  THEN pc' = "list" /\ deps' = got.deps /\ UNCHANGED err
                  ELSE Abort(ErrGet) /\ UNCHANGED deps
    /\ UNCHANGED <<logged, exitCode, snapshot, inputs, i, upgradeLocals, accumulators, waitLocals, history>>

\* Spray(): helm.List, checkTargetsAndExcludes, and the first test of the loop.
SprayCheck ==
    /\ pc = "list"
    /\ \E listed \in BOOLEAN :
          IF ~listed
          THEN Abort(ErrList) /\ UNCHANGED <<i, upgradeLocals, history>>
          ELSE IF ~checkTargetsAndExcludes(deps, Targets, Excludes).ok
               THEN /\ Abort(ErrCheck)
                    /\ UNCHANGED <<i, upgradeLocals, history>>
               ELSE /\ LoopAt(0)
                    /\ UNCHANGED <<err, calls, awaited, passed, probed>>
    /\ UNCHANGED <<logged, exitCode, snapshot, inputs, deps, accumulators, waitLocals>>

\* Variant of Accumulator: the names of the weights before are kept.
AccumulatorKept(first, names) == names

\* upgrade(): the list of names the manifest of a dependency is added to: a
\* new one for the first dependency of the weight.
Accumulator(first, names) == IF first THEN <<>> ELSE names

\* upgrade(): the next dependency to upgrade for the current weight: the
\* accumulators are emptied for the first one, helm is called, its answer is
\* tested and its manifest is sorted into the accumulators.
UpgradeUnit ==
    /\ pc = "upgrade"
    /\ Pending(deps, k, i) # {}
    /\ LET j == Min(Pending(deps, k, i))
           d == deps[j]
           dep0 == Accumulator(firstInWeight, deployments)
           sts0 == Accumulator(firstInWeight, statefulSets)
           job0 == Accumulator(firstInWeight, jobs)
       IN \E r \in HelmResults(d.UsedName) :
             /\ firstInWeight' = FALSE
             /\ logged' = Append(logged,
                   [release |-> d.CorrespondingReleaseName,
                    first |-> d.CorrespondingReleaseName \notin listing])
             /\ calls' = Append(calls,
                   [unit |-> j, release |-> d.CorrespondingReleaseName, wave |-> i,
                    dryRun |-> DryRun, err |-> r.err, status |-> r.status,
                    manifest |-> r.manifest,
                    gate |-> passed,
                    sets |-> SetArgs(valuesSet(ValuesOpts,
                                               depValuesSet(deps, d.UsedName)))])
             /\ IF r.err
                THEN /\ Abort(ErrUpgrade)
                     /\ shouldWait' = FALSE
                     /\ k' = j
                     /\ deployments' = dep0
                     /\ statefulSets' = sts0
                     /\ jobs' = job0
                ELSE IF ~StatusAccepted(DryRun, r.status)
                THEN /\ Abort(ErrStatus)
                     /\ shouldWait' = FALSE
                     /\ k' = j
                     /\ deployments' = dep0
                     /\ statefulSets' = sts0
                     /\ jobs' = job0
                ELSE /\ shouldWait' = TRUE
                     /\ k' = j + 1
                     /\ deployments' = dep0 \o NamesOf(r.manifest, "Deployment")
                     /\ statefulSets' = sts0 \o NamesOf(r.manifest, "StatefulSet")
                     /\ jobs' = job0 \o NamesOf(r.manifest, "Job")
                     /\ UNCHANGED <<pc, err>>
    /\ UNCHANGED <<exitCode, snapshot, inputs, deps, i, waitLocals, visited, awaited, passed, probed>>

\* Variant of UpgradeReturn: the dependencies of the weight that was upgraded
\* are marked as no longer targeted.
UpgradeReturnMarking ==
    /\ pc = "upgrade"
    /\ Pending(deps, k, i) = {}
    /\ IF BarrierDue(shouldWait, DryRun)
       THEN /\ pc' = "wait"
            /\ awaited' = awaited \cup {i}
            /\ waited' = 0
            /\ doneDeployments' = FALSE
            /\ doneStatefulSets' = FALSE
            /\ doneJobs' = FALSE
            /\ rounds' = 0
            /\ polled' = NoPolled
            /\ UNCHANGED <<i, upgradeLocals, visited>>
       ELSE /\ LoopAt(i + 1)
            /\ UNCHANGED <<awaited, waitLocals>>
    /\ deps' = [j \in 1..Len(deps) |->
                   IF deps[j].Weight = i THEN [deps[j] EXCEPT !.Targeted = FALSE]
                   ELSE deps[j]]
    /\ UNCHANGED <<logged, exitCode, snapshot, err, inputs, accumulators, calls, passed, probed>>

\* upgrade() returns shouldWait; Spray() enters wait() or goes to the next weight.
UpgradeReturn ==
    /\ pc = "upgrade"
    /\ Pending(deps, k, i) = {}
    /\ IF BarrierDue(shouldWait, DryRun)
       THEN /\ pc' = "wait"
            /\ awaited' = awaited \cup {i}
            /\ waited' = 0
            /\ doneDeployments' = FALSE
            /\ doneStatefulSets' = FALSE
            /\ doneJobs' = FALSE
            /\ rounds' = 0
            /\ polled' = NoPolled
            /\ UNCHANGED <<i, upgradeLocals, visited>>
       ELSE /\ LoopAt(i + 1)
            /\ UNCHANGED <<awaited, waitLocals>>
    /\ UNCHANGED <<logged, exitCode, snapshot, err, inputs, deps, accumulators, calls, passed, probed>>

\* Variant of Polled: every kind that has names is probed at every round.
PolledUnlatched(rd, rs, rj) ==
    LET pd == Len(deployments) > 0
        ps == Len(statefulSets) > 0
        pj == Len(jobs) > 0
        dd == IF pd THEN rd ELSE TRUE
        ds == IF ps THEN rs ELSE TRUE
        dj == IF pj THEN rj ELSE TRUE
    IN /\ probed' = (probed \/ pd \/ ps \/ pj)
       /\ polled' = [deployment |-> pd, statefulset |-> ps, job |-> pj]
       /\ IF dd /\ ds /\ dj
          THEN /\ passed' = passed \cup {i}
               /\ waited' = 0
               /\ doneDeployments' = FALSE
               /\ doneStatefulSets' = FALSE
               /\ doneJobs' = FALSE
               /\ rounds' = 0
               /\ LoopAt(i + 1)
          ELSE /\ doneDeployments' = dd
               /\ doneStatefulSets' = ds
               /\ doneJobs' = dj
               /\ waited' = waited + sleepTime
               /\ rounds' = rounds + 1
               /\ UNCHANGED <<pc, i, upgradeLocals, visited, passed>>

\* wait(): the body of the polling loop, rd, rs and rj being what the probes
\* of the three kinds answer when they are made.
Polled(rd, rs, rj) ==
    LET pd == Len(deployments) > 0 /\ ~doneDeployments
        ps == Len(statefulSets) > 0 /\ ~doneStatefulSets
        pj == Len(jobs) > 0 /\ ~doneJobs
        dd == IF pd THEN rd ELSE TRUE
        ds == IF ps THEN rs ELSE TRUE
        dj == IF pj THEN rj ELSE TRUE
    IN /\ probed' = (probed \/ pd \/ ps \/ pj)
       /\ polled' = [deployment |-> pd, statefulset |-> ps, job |-> pj]
       /\ IF dd /\ ds /\ dj
          THEN /\ passed' = passed \cup {i}
               /\ waited' = 0
               /\ doneDeployments' = FALSE
               /\ doneStatefulSets' = FALSE
               /\ doneJobs' = FALSE
               /\ rounds' = 0
               /\ LoopAt(i + 1)
          ELSE /\ doneDeployments' = dd
               /\ doneStatefulSets' = ds
               /\ doneJobs' = dj
               /\ waited' = waited + sleepTime
               /\ rounds' = rounds + 1
               /\ UNCHANGED <<pc, i, upgradeLocals, visited, passed>>

\* wait(): one round of the polling loop.  A probe that fails counts as not ready.
WaitRound ==
    /\ pc = "wait"
    /\ WaitContinues(waited, Timeout)
    /\ \E rd, rs, rj \in BOOLEAN : Polled(rd, rs, rj)
    /\ UNCHANGED <<logged, exitCode, snapshot, err, inputs, deps, accumulators, calls, awaited>>

\* wait(): the loop is over without a break.
WaitTimeout ==
    /\ pc = "wait"
    /\ ~WaitContinues(waited, Timeout)
    /\ IF TimedOut(doneDeployments, doneStatefulSets, doneJobs)
       THEN /\ Abort(ErrTimeout)
            /\ UNCHANGED <<i, upgradeLocals, visited, passed>>
       ELSE /\ passed' = passed \cup {i}
            /\ LoopAt(i + 1)
            /\ UNCHANGED err
    /\ polled' = NoPolled
    /\ UNCHANGED <<logged, exitCode, snapshot, inputs, deps, accumulators, waited,
                   doneDeployments, doneStatefulSets, doneJobs, rounds, calls,
                   awaited, probed>>

Next ==
    \/ RunE
    \/ SprayGet
    \/ SprayCheck
    \/ UpgradeUnit
    \/ UpgradeReturn
    \/ WaitRound
    \/ WaitTimeout

Spec == Init /\ [][Next]_vars

SpecGaps == InitGaps /\ [][Next]_vars

\* ------------------------------------------------- runs on a cluster with releases

\* What helm.List may return: any of the releases of the sub-charts may exist.
Listings == SUBSET {UnitNames[j] : j \in 1..MaxUnits}

\* The invocations on untagged charts, in a namespace where helm lists some
\* releases.
InitList ==
    /\ pc \in {"cli", "spray"}
    /\ chart \in {ch \in Charts : WellNamed(ch) /\ \A j \in 1..Len(ch) : ch[j].Tags = <<>>}
    /\ \E ws \in [Range(UnitNames) -> WeightValues] :
          /\ \A j \in (Len(chart) + 1)..Len(UnitNames) :
                ws[UnitNames[j]] = [ty |-> "float64", n |-> 0]
          /\ values = [weight |-> ws, tags |-> <<>>]
    /\ Unprovided
    /\ Targets \in FilterLists
    /\ Excludes = <<>>
    /\ DryRun \in BOOLEAN
    /\ Timeout \in Timeouts
    /\ listing \in Listings
    /\ PrefixReleases = ""
    /\ PrefixReleasesWithNamespace = FALSE
    /\ Namespace = "default"
    /\ Start

SpecList == InitList /\ [][Next]_vars

\* ------------------------------------------------- runs with prefixed releases

\* The invocations on untagged charts with either, both or none of
\* --prefix-releases and --prefix-releases-with-namespace, in the namespace
\* "default" or in another one.
InitPrefix ==
    /\ pc \in {"cli", "spray"}
    /\ chart \in {ch \in Charts : WellNamed(ch) /\ \A j \in 1..Len(ch) : ch[j].Tags = <<>>}
    /\ \E ws \in [Range(UnitNames) -> WeightValues] :
          /\ \A j \in (Len(chart) + 1)..Len(UnitNames) :
                ws[UnitNames[j]] = [ty |-> "float64", n |-> 0]
          /\ values = [weight |-> ws, tags |-> <<>>]
    /\ Unprovided
    /\ Targets \in {<<>>, <<"a">>}
    /\ Excludes = <<>>
    /\ DryRun \in BOOLEAN
    /\ Timeout \in Timeouts
    /\ listing = {}
    /\ PrefixReleases \in {"", "p"}
    /\ PrefixReleasesWithNamespace \in BOOLEAN
    /\ Namespace \in {"default", "ns"}
    /\ Start

SpecPrefix == InitPrefix /\ [][Next]_vars

\* ------------------------------------------------- cmd/helmspray: statuses by value

\* In cmd/helmspray the code of upgrade() is that of Spray.upgrade
\* (UpgradeUnit), the names of each helm status being appended to the
\* parameter statuses of upgrade(), a copy of the slice header of spray():
\* deployments, statefulSets and jobs are here the names in that copy.

\* cmd/helmspray spray(): upgrade() has returned and its copy of statuses is
\* gone; the slice of spray() is as it was made, of length 0, and is what
\* wait() is given.
CmdUpgradeReturn ==
    /\ pc = "upgrade"
    /\ Pending(deps, k, i) = {}
    /\ deployments' = <<>>
    /\ statefulSets' = <<>>
    /\ jobs' = <<>>
    /\ IF BarrierDue(shouldWait, DryRun)
       THEN /\ pc' = "wait"
            /\ awaited' = awaited \cup {i}
            /\ waited' = 0
            /\ doneDeployments' = FALSE
            /\ doneStatefulSets' = FALSE
            /\ doneJobs' = FALSE
            /\ rounds' = 0
            /\ polled' = NoPolled
            /\ UNCHANGED <<i, upgradeLocals, visited>>
       ELSE /\ LoopAt(i + 1)
            /\ UNCHANGED <<awaited, waitLocals>>
    /\ UNCHANGED <<logged, exitCode, snapshot, err, inputs, deps, calls, passed, probed>>

\* cmd/helmspray spray(), whose beginning and whose wait() are those of
\* Spray.Spray and Spray.wait.
InitCmd == Init /\ pc = "spray"

NextCmd ==
    \/ SprayGet
    \/ SprayCheck
    \/ UpgradeUnit
    \/ CmdUpgradeReturn
    \/ WaitRound
    \/ WaitTimeout

SpecCmd == InitCmd /\ [][NextCmd]_vars

\* ------------------------------------------------- runs that are not suspended

\* Every call made by RunE, Spray(), upgrade() and wait() returns, and
\* time.Sleep ends: a step that can be taken is taken.  The invocations are
\* those on the chart whose weights leave gaps.
SpecFair == InitGaps /\ [][Next]_vars /\ WF_vars(Next)

\* The same on every invocation of Init.
SpecFairAll == Init /\ [][Next]_vars /\ WF_vars(Next)

\* ------------------------------------------------------- the process, main()

\* main(): the exit code, were the error of Execute() not looked at.
ExitCodeOfAlwaysZero(e) == 0

\* main(): os.Exit(1) when rootCmd.Execute() returns an error, and the exit
\* code 0 of a main() that returns; log.ErrorAndExit exits with 1 as well.
ExitCodeOf(e) == IF e # "none" THEN 1 ELSE 0

\* main(): the process ends once RunE has returned.
Exit ==
    /\ pc \in {"completed", "aborted"}
    /\ exitCode = Running
    /\ snapshot = NoSnapshot
    /\ polled = NoPolled
    /\ exitCode' = ExitCodeOf(err)
    /\ UNCHANGED <<pc, err, inputs, deps, i, upgradeLocals, accumulators,
                   waitLocals, history, logged, snapshot>>

InitMain == Init /\ pc = "cli"

NextMain == Next \/ Exit

SpecMain == InitMain /\ [][NextMain]_vars

\* ------------------------------------------------- dependencies.Get alone

\* Aliases the sub-charts may be given, by position.
AliasNames == <<"x", "y", "z", "w">>

GetTagLists == {<<>>, <<"t">>, <<"t", "u">>}

GetTagTables ==
    {<<>>,
     [t \in {"t"} |-> BoolTrue],
     [t \in {"t"} |-> BoolFalse],
     [t \in {"t"} |-> StringTrue],
     [t \in {"u"} |-> BoolTrue],
     [t \in {"t", "u"} |-> IF t = "u" THEN BoolTrue ELSE BoolFalse]}

\* "x" is the alias the first sub-chart may have, "zz" names no sub-chart.
GetFilterLists == {<<>>, <<"a">>, <<"x">>, <<"zz">>, <<"b", "a">>}

\* The declarations the sub-chart at position j may have.
UnitsAt(j) ==
    {[Name |-> UnitNames[j], Alias |-> al, Tags |-> tg] :
        al \in {"", AliasNames[j]}, tg \in GetTagLists}

GetCharts ==
    UNION {{ch \in [1..n -> UNION {UnitsAt(j) : j \in 1..n}] :
                \A j \in 1..n : ch[j] \in UnitsAt(j)} : n \in 0..MaxUnits}

UsedNames(ch) == {UsedNameOf(ch[j]) : j \in 1..Len(ch)}

\* Get is called on a chart whose sub-charts all have the weight 0.
InitGet ==
    /\ pc = "get"
    /\ chart \in GetCharts
    /\ \E tt \in GetTagTables :
          values = [weight |-> [n \in UsedNames(chart) |-> [ty |-> "float64", n |-> 0]],
                    tags |-> tt]
    /\ Unprovided
    /\ Targets \in GetFilterLists
    /\ Excludes \in GetFilterLists
    /\ DryRun = FALSE
    /\ Timeout = 0
    /\ NoPrefix
    /\ Start

\* The message of log.ErrorAndExit for the weight v of sub-chart usedName.
WeightErrorOf(usedName, v) ==
    "Error computing weight value for sub-chart \"" \o usedName \o "\": "
    \o (IF v.ty = "missing" THEN "no such value"
        ELSE IF v.ty \notin {"json.Number", "float64"} \/ v.n % 10 # 0
        THEN "value shall be an integer"
        ELSE "value shall be positive or equal to zero")

\* dependencies.Get returns the list, or ends the process on a weight.
GetStep ==
    /\ pc = "get"
    /\ LET got == Get(chart, values, Targets, Excludes, "")
       IN IF got.ok
          THEN pc' = "got" /\ deps' = got.deps /\ UNCHANGED err
          ELSE /\ Abort(WeightErrorOf(got.unit, values.weight[got.unit]))
               /\ UNCHANGED deps
    /\ UNCHANGED <<logged, exitCode, snapshot, inputs, i, upgradeLocals, accumulators, waitLocals, history>>

SpecGet == InitGet /\ [][GetStep]_vars

\* ------------------------------------------------- --set arguments

\* The invocations with --set arguments on charts whose sub-charts may have
\* an alias and a tag, with the weights 0 and 1.
SetLists == {<<>>, <<"k=1">>, <<"k=2", "a.enabled=false,k=1">>}

InitSets ==
    /\ pc \in {"cli", "spray"}
    /\ chart \in UNION {{ch \in [1..n -> UNION {UnitsAt(j) : j \in 1..n}] :
                            \A j \in 1..n : ch[j] \in UnitsAt(j) /\ ch[j].Tags \in TagLists} :
                        n \in 0..MaxUnits}
    /\ \E ws \in [UsedNames(chart) -> {[ty |-> "float64", n |-> 10 * w] : w \in 0..1}],
          tt \in TagTables :
          values = [weight |-> ws, tags |-> tt]
    /\ chartValues = values
    /\ providedValues = NoValues
    /\ ValuesOpts \in SetLists
    /\ cluster = <<>>
    /\ Targets \in FilterLists
    /\ Excludes \in FilterLists
    /\ DryRun \in BOOLEAN
    /\ Timeout = 4
    /\ NoPrefix
    /\ Start

SpecSets == InitSets /\ [][Next]_vars

\* ------------------------------------------------- Get on any weight

\* What values.PathValue may find at "<usedName>.weight", numbers in tenths:
\* nothing, a YAML number (whole or not, of either sign) as float64 or as
\* json.Number, or a string.
WeightInputs ==
    {[ty |-> "missing", n |-> 0], [ty |-> "string", n |-> 0]}
    \cup {[ty |-> "float64", n |-> 10 * w] : w \in (-1)..MaxWeight}
    \cup {[ty |-> "float64", n |-> t] : t \in {-15, -5, 5, 15}}
    \cup {[ty |-> "json.Number", n |-> t] : t \in {-10, 0, 10, 15}}

InitWeight ==
    /\ pc = "get"
    /\ chart \in {ch \in GetCharts : \A j \in 1..Len(ch) : ch[j].Tags = <<>>}
    /\ \E ws \in [UsedNames(chart) -> WeightInputs] :
          values = [weight |-> ws, tags |-> <<>>]
    /\ Unprovided
    /\ Targets = <<>>
    /\ Excludes = <<>>
    /\ DryRun = FALSE
    /\ Timeout = 0
    /\ NoPrefix
    /\ Start

SpecWeight == InitWeight /\ [][GetStep]_vars

\* ------------------------------------------------- values.Merge, then Get

\* mergeMaps on two tables of plain values: the keys of b win.
mergeMaps(a, b) ==
    [key \in DOMAIN a \cup DOMAIN b |-> IF key \in DOMAIN b THEN b[key] ELSE a[key]]

\* Merge: the tables "tags" and "<usedName>" of the chart's values and of the
\* provided values are merged key by key.
Merge(cv, pv) ==
    [weight |-> mergeMaps(cv.weight, pv.weight),
     tags |-> mergeMaps(cv.tags, pv.tags)]

\* A chart without aliases whose values.yaml gives every sub-chart the weight
\* 0 and may hold a tags table; -f / --set may give another tags table.
InitMerge ==
    /\ pc = "merge"
    /\ chart \in {ch \in GetCharts : \A j \in 1..Len(ch) : ch[j].Alias = ""}
    /\ \E tt \in GetTagTables :
          chartValues = [weight |-> [n \in UsedNames(chart) |-> [ty |-> "float64", n |-> 0]],
                         tags |-> tt]
    /\ \E tt \in GetTagTables : providedValues = [weight |-> <<>>, tags |-> tt]
    /\ values = NoValues
    /\ ValuesOpts = <<>>
    /\ cluster = <<>>
    /\ Targets = <<>>
    /\ Excludes = <<>>
    /\ DryRun = FALSE
    /\ Timeout = 0
    /\ NoPrefix
    /\ Start

\* Spray(): mergedValues := values.Merge(chart, ...).
MergeStep ==
    /\ pc = "merge"
    /\ values' = Merge(chartValues, providedValues)
    /\ pc' = "get"
    /\ UNCHANGED <<logged, exitCode, snapshot, err, chart, chartValues, providedValues,
                   ValuesOpts, cluster, listing, PrefixReleases,
                   PrefixReleasesWithNamespace, Namespace,
                   Targets, Excludes, DryRun, Timeout, deps, i, upgradeLocals,
                   accumulators, waitLocals, history>>

NextMerge ==
    \/ MergeStep
    \/ GetStep

SpecMerge == InitMerge /\ [][NextMerge]_vars

\* ------------------------------------------------- kubectl readiness probes

\* A field of .status that the object does not hold.
Absent == -1

\* The test of the go-template of areWorkloadsReady on one item w: its name
\* is printed, the workload is not ready.  A field that is absent or 0 fails
\* the template's "if" and leaves the default.
templateTest(w) ==
    LET ready == IF w.readyReplicas > 0 THEN w.readyReplicas ELSE 0
        current == IF w.currentReplicas > 0 THEN w.currentReplicas ELSE w.replicas
        updated == IF w.updatedReplicas > 0 THEN w.updatedReplicas ELSE 0
    IN ready < w.replicas \/ current < w.replicas \/ updated < w.replicas

\* generateTemplate: the test is made on the items named in names; the text
\* printed is the names of those that pass it.
templateOutput(names, items) ==
    {n \in DOMAIN items \cap Range(names) : templateTest(items[n])}

\* Variant of areWorkloadsReady: a kubectl command that fails is taken as
\* having printed no name.
areWorkloadsReadyOnError(k8sObjectType, names, cl, failed) ==
    IF Len(names) = 0 THEN [ready |-> TRUE, err |-> FALSE]
    ELSE IF failed THEN [ready |-> TRUE, err |-> TRUE]
    ELSE [ready |-> templateOutput(names, cl[k8sObjectType]) = {}, err |-> FALSE]

\* areWorkloadsReady: (ready, err) for the workloads named, failed being
\* whether the kubectl command returned an error.
areWorkloadsReady(k8sObjectType, names, cl, failed) ==
    IF Len(names) = 0 THEN [ready |-> TRUE, err |-> FALSE]
    ELSE IF failed THEN [ready |-> FALSE, err |-> TRUE]
    ELSE [ready |-> templateOutput(names, cl[k8sObjectType]) = {}, err |-> FALSE]

\* strconv.Atoi on what jsonpath prints for .status.succeeded: nothing when
\* the field is not held (Atoi fails and gives 0), else the count.
Atoi(succeeded) == IF succeeded = Absent THEN 0 ELSE succeeded

\* Variant of AreJobsReady: a job that has reported its status is taken as
\* completed, whatever its succeeded count.
RECURSIVE AreJobsReadyAnyCount(_, _, _)
AreJobsReadyAnyCount(names, items, failed) ==
    IF names = <<>> THEN [ready |-> TRUE, err |-> FALSE]
    ELSE IF failed \/ Head(names) \notin DOMAIN items
    THEN [ready |-> FALSE, err |-> TRUE]
    ELSE IF items[Head(names)].succeeded = Absent
    THEN [ready |-> FALSE, err |-> FALSE]
    ELSE AreJobsReadyAnyCount(Tail(names), items, failed)

\* AreJobsReady: (ready, err) for the jobs named, one kubectl get job each,
\* which fails when kubectl fails or when there is no such job.
RECURSIVE AreJobsReady(_, _, _)
AreJobsReady(names, items, failed) ==
    IF names = <<>> THEN [ready |-> TRUE, err |-> FALSE]
    ELSE IF failed \/ Head(names) \notin DOMAIN items
    THEN [ready |-> FALSE, err |-> TRUE]
    ELSE IF Atoi(items[Head(names)].succeeded) < 1
    THEN [ready |-> FALSE, err |-> FALSE]
    ELSE AreJobsReady(Tail(names), items, failed)

\* The statuses a Deployment may show (it has no .status.currentReplicas) and
\* those a StatefulSet may show.
DeploymentStatuses ==
    {[replicas |-> d, readyReplicas |-> r, currentReplicas |-> Absent,
      updatedReplicas |-> u] :
        d \in 1..MaxReplicas, r \in Absent..MaxReplicas, u \in Absent..MaxReplicas}

StatefulSetStatuses ==
    {[replicas |-> d, readyReplicas |-> r, currentReplicas |-> c,
      updatedReplicas |-> u] :
        d \in 1..MaxReplicas, r \in Absent..MaxReplicas,
        c \in Absent..MaxReplicas, u \in Absent..MaxReplicas}

\* The items of one kind in the namespace: none, or the one named "a".
Items(statuses) == {<<>>} \cup {[n \in {"a"} |-> st] : st \in statuses}

ErrKubectl == "kubectl get"

\* wait() is about to probe the workloads "a" of a release in some cluster.
InitProbe ==
    /\ pc = "probeDeployments"
    /\ chart = <<>>
    /\ values = NoValues
    /\ chartValues = NoValues
    /\ providedValues = NoValues
    /\ ValuesOpts = <<>>
    /\ \E dp \in Items(DeploymentStatuses), ss \in Items(StatefulSetStatuses) :
          cluster = [deployment |-> dp, statefulset |-> ss, job |-> <<>>]
    /\ Targets = <<>>
    /\ Excludes = <<>>
    /\ DryRun = FALSE
    /\ Timeout = 0
    /\ err = "none"
    /\ deps = <<>>
    /\ i = 0
    /\ k = 1
    /\ shouldWait = TRUE
    /\ firstInWeight = FALSE
    /\ deployments \in {<<>>, <<"a">>}
    /\ statefulSets \in {<<>>, <<"a">>}
    /\ jobs = <<>>
    /\ waited = 0
    /\ doneDeployments = FALSE
    /\ doneStatefulSets = FALSE
    /\ doneJobs = FALSE
    /\ calls = <<>>
    /\ visited = <<>>
    /\ awaited = {}
    /\ passed = {}
    /\ rounds = 0
    /\ probed = FALSE
    /\ logged = <<>>
    /\ exitCode = Running
    /\ snapshot = NoSnapshot
    /\ polled = NoPolled
    /\ NoPrefix

\* wait(): doneDeployments, _ = kubectl.AreDeploymentsReady(...).  wait() drops
\* the error of the probe; err keeps it here for the properties.
ProbeDeployments ==
    /\ pc = "probeDeployments"
    /\ \E failed \in BOOLEAN :
          LET res == areWorkloadsReady("deployment", deployments, cluster, failed)
          IN /\ doneDeployments' = res.ready
             /\ err' = IF res.err THEN ErrKubectl ELSE err
    /\ pc' = "probeStatefulSets"
    /\ probed' = TRUE
    /\ UNCHANGED <<logged, exitCode, snapshot, polled, inputs, deps, i, upgradeLocals,
                   accumulators, waited,
                   doneStatefulSets, doneJobs, rounds, calls, visited, awaited,
                   passed>>

\* wait(): doneStatefulSets, _ = kubectl.AreStatefulSetsReady(...).
ProbeStatefulSets ==
    /\ pc = "probeStatefulSets"
    /\ \E failed \in BOOLEAN :
          LET res == areWorkloadsReady("statefulset", statefulSets, cluster, failed)
          IN /\ doneStatefulSets' = res.ready
             /\ err' = IF res.err THEN ErrKubectl ELSE err
    /\ pc' = "probeJobs"
    /\ UNCHANGED <<logged, exitCode, snapshot, polled, inputs, deps, i, upgradeLocals,
                   accumulators, waited,
                   doneDeployments, doneJobs, rounds, history>>

\* wait(): doneJobs, _ = kubectl.AreJobsReady(...), or doneJobs = true when no
\* job is awaited.
ProbeJobs ==
    /\ pc = "probeJobs"
    /\ \E failed \in BOOLEAN :
          LET res == IF Len(jobs) > 0 THEN AreJobsReady(jobs, cluster.job, failed)
                     ELSE [ready |-> TRUE, err |-> FALSE]
          IN /\ doneJobs' = res.ready
             /\ err' = IF res.err THEN ErrKubectl ELSE err
    /\ pc' = "probed"
    /\ UNCHANGED <<logged, exitCode, snapshot, polled, inputs, deps, i, upgradeLocals,
                   accumulators, waited,
                   doneDeployments, doneStatefulSets, rounds, history>>

NextProbe ==
    \/ ProbeDeployments
    \/ ProbeStatefulSets
    \/ ProbeJobs

SpecProbe == InitProbe /\ [][NextProbe]_vars

\* The statuses of the workloads of a list: a Deployment whose pods are all
\* updated, with any count of ready pods; a Job with any count of succeeded
\* pods.
ListedDeploymentStatuses ==
    {st \in DeploymentStatuses : st.updatedReplicas = st.replicas}

JobStatuses == {[succeeded |-> n] : n \in Absent..MaxReplicas}

\* The items of one kind in the namespace: any of those named in names.
ItemsNamed(names, statuses) ==
    UNION {[present -> statuses] : present \in SUBSET names}

\* wait() is about to probe up to two Deployments and two Jobs, which the
\* cluster may hold or not.
InitProbeList ==
    /\ pc = "probeDeployments"
    /\ chart = <<>>
    /\ values = NoValues
    /\ chartValues = NoValues
    /\ providedValues = NoValues
    /\ ValuesOpts = <<>>
    /\ \E dp \in ItemsNamed({"a", "b"}, ListedDeploymentStatuses),
          jb \in ItemsNamed({"a-job", "b-job"}, JobStatuses) :
          cluster = [deployment |-> dp, statefulset |-> <<>>, job |-> jb]
    /\ Targets = <<>>
    /\ Excludes = <<>>
    /\ DryRun = FALSE
    /\ Timeout = 0
    /\ err = "none"
    /\ deps = <<>>
    /\ i = 0
    /\ k = 1
    /\ shouldWait = TRUE
    /\ firstInWeight = FALSE
    /\ deployments \in {<<>>, <<"a">>, <<"a", "b">>}
    /\ statefulSets = <<>>
    /\ jobs \in {<<>>, <<"a-job">>, <<"a-job", "b-job">>}
    /\ waited = 0
    /\ doneDeployments = FALSE
    /\ doneStatefulSets = FALSE
    /\ doneJobs = FALSE
    /\ calls = <<>>
    /\ visited = <<>>
    /\ awaited = {}
    /\ passed = {}
    /\ rounds = 0
    /\ probed = FALSE
    /\ logged = <<>>
    /\ exitCode = Running
    /\ snapshot = NoSnapshot
    /\ polled = NoPolled
    /\ NoPrefix

SpecProbeList == InitProbeList /\ [][NextProbe]_vars

\* ------------------------------------------------- wait() on a cluster

\* The statuses of a workload of one replica (its pods updated) and of a job.
OneReplicaStatuses(statuses) ==
    {st \in statuses : /\ st.replicas = 1
                       /\ st.updatedReplicas = 1
                       /\ st.readyReplicas \in {0, 1}
                       /\ st.currentReplicas = Absent}

\* The clusters that hold or not the Deployment a, the StatefulSet a-db and
\* the Job a-job.
BarrierClusters ==
    {[deployment |-> dp, statefulset |-> ss, job |-> jb] :
        dp \in ItemsNamed({"a"}, OneReplicaStatuses(DeploymentStatuses)),
        ss \in ItemsNamed({"a-db"}, OneReplicaStatuses(StatefulSetStatuses)),
        jb \in ItemsNamed({"a-job"}, {st \in JobStatuses : st.succeeded \in {0, 1}})}

\* Spray() enters wait() for the weight 0, the only one, after the upgrade of
\* a release that made some of the three workloads.
InitBarrier ==
    /\ pc = "wait"
    /\ chart = <<>>
    /\ values = NoValues
    /\ chartValues = NoValues
    /\ providedValues = NoValues
    /\ ValuesOpts = <<>>
    /\ cluster \in BarrierClusters
    /\ Targets = <<>>
    /\ Excludes = <<>>
    /\ DryRun = FALSE
    /\ Timeout \in {4, 10}
    /\ err = "none"
    /\ deps = <<>>
    /\ i = 0
    /\ k = 1
    /\ shouldWait = TRUE
    /\ firstInWeight = FALSE
    /\ deployments \in {<<>>, <<"a">>}
    /\ statefulSets \in {<<>>, <<"a-db">>}
    /\ jobs \in {<<>>, <<"a-job">>}
    /\ waited = 0
    /\ doneDeployments = FALSE
    /\ doneStatefulSets = FALSE
    /\ doneJobs = FALSE
    /\ calls = <<>>
    /\ visited = <<0>>
    /\ awaited = {0}
    /\ passed = {}
    /\ rounds = 0
    /\ probed = FALSE
    /\ logged = <<>>
    /\ exitCode = Running
    /\ snapshot = NoSnapshot
    /\ polled = NoPolled
    /\ NoPrefix

\* wait(): one round of the polling loop, the probes reading the cluster.  The
\* cluster may change during the sleep that follows a round that was not the
\* last one.
WaitRoundOnCluster ==
    /\ pc = "wait"
    /\ WaitContinues(waited, Timeout)
    /\ \E fd, fs, fj \in BOOLEAN :
          Polled(areWorkloadsReady("deployment", deployments, cluster, fd).ready,
                 areWorkloadsReady("statefulset", statefulSets, cluster, fs).ready,
                 AreJobsReady(jobs, cluster.job, fj).ready)
    /\ IF pc' = "wait" THEN cluster' \in BarrierClusters ELSE cluster' = cluster
    /\ UNCHANGED <<logged, exitCode, snapshot, err, chart, chartValues, providedValues,
                   values, ValuesOpts, listing, PrefixReleases,
                   PrefixReleasesWithNamespace, Namespace,
                   Targets, Excludes, DryRun, Timeout, deps, accumulators, calls,
                   awaited>>

NextBarrier ==
    \/ WaitRoundOnCluster
    \/ WaitTimeout

SpecBarrier == InitBarrier /\ [][NextBarrier]_vars

\* wait(): one round of the polling loop when every kubectl command fails.
WaitRoundKubectlFails ==
    /\ pc = "wait"
    /\ WaitContinues(waited, Timeout)
    /\ Polled(areWorkloadsReady("deployment", deployments, cluster, TRUE).ready,
              areWorkloadsReady("statefulset", statefulSets, cluster, TRUE).ready,
              AreJobsReady(jobs, cluster.job, TRUE).ready)
    /\ UNCHANGED <<logged, exitCode, snapshot, err, inputs, deps, accumulators, calls,
                   awaited>>

NextKubectlFails ==
    \/ WaitRoundKubectlFails
    \/ WaitTimeout

\* wait() on a cluster that kubectl cannot reach.
SpecKubectlFails == InitBarrier /\ [][NextKubectlFails]_vars

\* ------------------------------------------------- part_014: the namespace snapshot

\* The names of the documents of manifest m that are of a kind.
Decoded(m, kind) == {m[q].name : q \in {q \in 1..Len(m) : m[q].kind = kind}}

\* Some enumeration of a finite set, the order in which kubectl prints names.
RECURSIVE SeqOf(_)
SeqOf(S) ==
    IF S = {} THEN <<>>
    ELSE LET x == CHOOSE y \in S : TRUE IN <<x>> \o SeqOf(S \ {x})

\* kubectl.getWorkloads: the names of the workloads of a kind, split from the
\* text kubectl prints (one empty name when it prints nothing), or an error.
getWorkloads(k8sObjectType, cl, failed) ==
    IF failed THEN [names |-> <<>>, err |-> TRUE]
    ELSE [names |-> IF DOMAIN cl[k8sObjectType] = {} THEN <<"">>
                    ELSE SeqOf(DOMAIN cl[k8sObjectType]),
          err |-> FALSE]

ErrListDeployments == "cannot list deployments"
ErrListStatefulSets == "cannot list statefulsets"
ErrListJobs == "cannot list jobs"

\* The names of a list that the map known does not hold, in order.
RECURSIVE Unknown(_, _)
Unknown(names, known) ==
    IF names = <<>> THEN <<>>
    ELSE (IF Head(names) \in known THEN <<>> ELSE <<Head(names)>>)
         \o Unknown(Tail(names), known)

\* The status of a workload that helm has just created or updated.
Rolling == [replicas |-> 1, readyReplicas |-> 0, currentReplicas |-> Absent,
            updatedReplicas |-> 1]

\* The items of a kind after helm has applied the workloads named.
Created(items, names, st) ==
    [n \in DOMAIN items \cup names |-> IF n \in names THEN st ELSE items[n]]

\* What helm upgrade does to the namespace: the workloads of the manifest of
\* the release are created, or updated when they exist.
Applied(cl, m) ==
    [deployment |-> Created(cl.deployment, Decoded(m, "Deployment"), Rolling),
     statefulset |-> Created(cl.statefulset, Decoded(m, "StatefulSet"), Rolling),
     job |-> Created(cl.job, Decoded(m, "Job"), [succeeded |-> 0])]

\* The namespace before the run: empty, or holding the Deployment a of an
\* earlier release of sub-chart a.
SnapshotClusters ==
    {[deployment |-> dp, statefulset |-> <<>>, job |-> <<>>] :
        dp \in ItemsNamed({"a"}, OneReplicaStatuses(DeploymentStatuses))}

\* The invocations of Spray() on untagged charts in such a namespace.
InitSnapshot ==
    /\ pc = "spray"
    /\ chart \in {ch \in Charts : WellNamed(ch) /\ \A j \in 1..Len(ch) : ch[j].Tags = <<>>}
    /\ \E ws \in [Range(UnitNames) -> WeightValues] :
          /\ \A j \in (Len(chart) + 1)..Len(UnitNames) :
                ws[UnitNames[j]] = [ty |-> "float64", n |-> 0]
          /\ values = [weight |-> ws, tags |-> <<>>]
    /\ chartValues = values
    /\ providedValues = NoValues
    /\ ValuesOpts = <<>>
    /\ cluster \in SnapshotClusters
    /\ Targets = <<>>
    /\ Excludes = <<>>
    /\ DryRun \in BOOLEAN
    /\ Timeout \in Timeouts
    /\ NoPrefix
    /\ Start

\* Spray(): helm.List, checkTargetsAndExcludes, the record of the workloads
\* the namespace holds, and the first test of the loop.
SnapshotCheck ==
    /\ pc = "list"
    /\ \E listed, fd, fs, fj \in BOOLEAN :
          LET allDeployments == getWorkloads("deployment", cluster, fd)
              allStatefulSets == getWorkloads("statefulset", cluster, fs)
              allJobs == getWorkloads("job", cluster, fj)
              failure ==
                  IF ~listed THEN ErrList
                  ELSE IF ~checkTargetsAndExcludes(deps, Targets, Excludes).ok THEN ErrCheck
                  ELSE IF allDeployments.err THEN ErrListDeployments
                  ELSE IF allStatefulSets.err THEN ErrListStatefulSets
                  ELSE IF allJobs.err THEN ErrListJobs
                  ELSE "none"
          IN IF failure # "none"
             THEN /\ Abort(failure)
                  /\ UNCHANGED <<i, upgradeLocals, history, snapshot>>
             ELSE /\ snapshot' = [deployment |-> Range(allDeployments.names),
                                  statefulset |-> Range(allStatefulSets.names),
                                  job |-> Range(allJobs.names)]
                  /\ LoopAt(0)
                  /\ UNCHANGED <<err, calls, awaited, passed, probed>>
    /\ UNCHANGED <<logged, exitCode, inputs, deps, accumulators, waitLocals>>

\* upgrade(): the next dependency to upgrade for the current weight: helm is
\* called, which changes the namespace, and its answer is tested.
SnapshotUpgradeUnit ==
    /\ pc = "upgrade"
    /\ Pending(deps, k, i) # {}
    /\ LET j == Min(Pending(deps, k, i))
           d == deps[j]
       IN \E r \in HelmResults(d.UsedName) :
             /\ firstInWeight' = FALSE
             /\ logged' = Append(logged,
                   [release |-> d.CorrespondingReleaseName,
                    first |-> d.CorrespondingReleaseName \notin listing])
             /\ calls' = Append(calls,
                   [unit |-> j, release |-> d.CorrespondingReleaseName, wave |-> i,
                    dryRun |-> DryRun, err |-> r.err, status |-> r.status,
                    manifest |-> r.manifest,
                    gate |-> passed,
                    sets |-> SetArgs(valuesSet(ValuesOpts,
                                               depValuesSet(deps, d.UsedName)))])
             /\ cluster' = IF r.err \/ DryRun THEN cluster ELSE Applied(cluster, r.manifest)
             /\ IF r.err
                THEN /\ Abort(ErrUpgrade)
                     /\ shouldWait' = FALSE
                     /\ k' = j
                ELSE IF ~StatusAccepted(DryRun, r.status)
                THEN /\ Abort(ErrStatus)
                     /\ shouldWait' = FALSE
                     /\ k' = j
                ELSE /\ shouldWait' = TRUE
                     /\ k' = j + 1
                     /\ UNCHANGED <<pc, err>>
    /\ UNCHANGED <<exitCode, snapshot, chart, chartValues, providedValues, values,
                   ValuesOpts, listing, PrefixReleases, PrefixReleasesWithNamespace,
                   Namespace, Targets, Excludes, DryRun, Timeout, deps, i,
                   accumulators, waitLocals, visited, awaited, passed, probed>>

\* upgrade() returns shouldWait; Spray() goes to the next weight, or enters
\* wait(), which lists the namespace and keeps the names that are not known.
SnapshotUpgradeReturn ==
    /\ pc = "upgrade"
    /\ Pending(deps, k, i) = {}
    /\ IF BarrierDue(shouldWait, DryRun)
       THEN \E fd, fs, fj \in BOOLEAN :
               LET allDeployments == getWorkloads("deployment", cluster, fd)
                   allStatefulSets == getWorkloads("statefulset", cluster, fs)
                   allJobs == getWorkloads("job", cluster, fj)
               IN /\ awaited' = awaited \cup {i}
                  /\ UNCHANGED <<i, upgradeLocals, visited>>
                  /\ IF allDeployments.err \/ allStatefulSets.err \/ allJobs.err
                     THEN /\ Abort(IF allDeployments.err THEN ErrListDeployments
                                   ELSE IF allStatefulSets.err THEN ErrListStatefulSets
                                   ELSE ErrListJobs)
                          /\ UNCHANGED <<accumulators, waitLocals>>
                     ELSE /\ pc' = "wait"
                          /\ deployments' = Unknown(allDeployments.names, snapshot.deployment)
                          /\ statefulSets' = Unknown(allStatefulSets.names, snapshot.statefulset)
                          /\ jobs' = Unknown(allJobs.names, snapshot.job)
                          /\ waited' = 0
                          /\ doneDeployments' = FALSE
                          /\ doneStatefulSets' = FALSE
                          /\ doneJobs' = FALSE
                          /\ rounds' = 0
                          /\ polled' = NoPolled
                          /\ UNCHANGED err
       ELSE /\ LoopAt(i + 1)
            /\ UNCHANGED <<err, awaited, accumulators, waitLocals>>
    /\ UNCHANGED <<logged, exitCode, snapshot, inputs, deps, calls, passed, probed>>

\* The maps of Spray once wait() has added the names it polled.
Known == [deployment |-> snapshot.deployment \cup Range(deployments),
          statefulset |-> snapshot.statefulset \cup Range(statefulSets),
          job |-> snapshot.job \cup Range(jobs)]

\* wait(): one round of the polling loop; the names polled are known once
\* the loop is left with everything ready.
SnapshotWaitRound ==
    /\ pc = "wait"
    /\ WaitContinues(waited, Timeout)
    /\ \E rd, rs, rj \in BOOLEAN : Polled(rd, rs, rj)
    /\ snapshot' = IF pc' = "wait" THEN snapshot ELSE Known
    /\ UNCHANGED <<logged, exitCode, err, inputs, deps, accumulators, calls, awaited>>

\* wait(): the loop is over without a break.
SnapshotWaitTimeout ==
    /\ pc = "wait"
    /\ ~WaitContinues(waited, Timeout)
    /\ IF TimedOut(doneDeployments, doneStatefulSets, doneJobs)
       THEN /\ Abort(ErrTimeout)
            /\ UNCHANGED <<i, upgradeLocals, visited, passed, snapshot>>
       ELSE /\ passed' = passed \cup {i}
            /\ snapshot' = Known
            /\ LoopAt(i + 1)
            /\ UNCHANGED err
    /\ polled' = NoPolled
    /\ UNCHANGED <<logged, exitCode, inputs, deps, accumulators, waited,
                   doneDeployments, doneStatefulSets, doneJobs, rounds, calls,
                   awaited, probed>>

NextSnapshot ==
    \/ SprayGet
    \/ SnapshotCheck
    \/ SnapshotUpgradeUnit
    \/ SnapshotUpgradeReturn
    \/ SnapshotWaitRound
    \/ SnapshotWaitTimeout

SpecSnapshot == InitSnapshot /\ [][NextSnapshot]_vars

\* ------------------------------------------------- vocabulary of the properties

\* The units in scope: targeted and allowed by tags.
Eligible == {j \in 1..Len(deps) : deps[j].Targeted /\ deps[j].AllowedByTags}

EligibleAt(w) == {j \in Eligible : deps[j].Weight = w}

\* u comes before v: lower weight, or same weight and declared earlier.
Before(u, v) ==
    \/ deps[u].Weight < deps[v].Weight
    \/ deps[u].Weight = deps[v].Weight /\ u < v

\* The units the n-th release call was made for, and those called so far.
Called == {calls[n].unit : n \in 1..Len(calls)}

CalledBefore(n) == {calls[m].unit : m \in 1..(n - 1)}

ReleaseFailed(c) == c.err \/ (~c.dryRun /\ c.status # "deployed")

BothGiven == Len(Targets) > 0 /\ Len(Excludes) > 0

CeilDiv(a, b) == (a + b - 1) \div b

\* C1: on a real run, when a unit of weight w2 is upgraded, every lower weight
\* w1 that has eligible units has had all of them upgraded and its barrier has
\* returned success.
C1_BarrierGatesNextWave ==
    \A n \in 1..Len(calls) :
        ~calls[n].dryRun =>
            \A w1 \in 0..(deps[calls[n].unit].Weight - 1) :
                EligibleAt(w1) # {} =>
                    /\ EligibleAt(w1) \subseteq CalledBefore(n)
                    /\ w1 \in calls[n].gate

\* C1 witness: a real run has upgraded a unit of a higher weight after a unit
\* of a lower weight.
C1_Witness ==
    /\ ~DryRun
    /\ Len(calls) >= 2
    /\ deps[calls[1].unit].Weight < deps[calls[2].unit].Weight

\* C2: the release calls are made in ascending weight, and in declaration
\* order among units of the same weight.
C2_CallsInWeightThenDeclarationOrder ==
    \A m, n \in 1..Len(calls) : m < n => Before(calls[m].unit, calls[n].unit)

\* C2 witness: the unit declared second, of lower weight, was upgraded first.
C2_Witness ==
    /\ Len(calls) >= 2
    /\ calls[1].unit > calls[2].unit

\* C3: units out of scope are never upgraded; a completed run has upgraded
\* exactly the eligible units, each once and in the wave of its weight.
C3_CompletedUpgradesExactlyEligible ==
    /\ Called \subseteq Eligible
    /\ \A n \in 1..Len(calls) : calls[n].wave = deps[calls[n].unit].Weight
    /\ pc = "completed" =>
          /\ Called = Eligible
          /\ Len(calls) = Cardinality(Eligible)

\* C3 witness: a completed run that upgraded some unit and left another out.
C3_Witness ==
    /\ pc = "completed"
    /\ Eligible # {}
    /\ Eligible # 1..Len(deps)

\* C4: the weights are visited one by one from 0, up to the highest weight on
\* completion, and a weight without eligible units gets no release call and
\* no barrier.
C4_EmptyWavesDoNothing ==
    /\ \A n \in 1..Len(visited) : visited[n] = n - 1
    /\ pc = "completed" => Len(visited) = maxWeight(deps) + 1
    /\ \A w \in Range(visited) :
          EligibleAt(w) = {} =>
              /\ \A n \in 1..Len(calls) : calls[n].wave # w
              /\ w \notin awaited
              /\ w \notin passed

\* C4 witness: a completed real run over the weights 0, 2 and 5, whose three
\* units were upgraded and awaited.
C4_Witness ==
    /\ pc = "completed"
    /\ ~DryRun
    /\ visited = <<0, 1, 2, 3, 4, 5>>
    /\ awaited = {0, 2, 5}
    /\ Len(calls) = 3

\* C5: a release call that returns an error or, on a real run, a status other
\* than "deployed" is the last release call of the run, and the run is aborted.
C5_ReleaseFailureAborts ==
    \A n \in 1..Len(calls) :
        ReleaseFailed(calls[n]) => n = Len(calls) /\ pc = "aborted"

\* C5 witness: a real run aborted on a status other than "deployed" while an
\* eligible unit was still to be upgraded.
C5_Witness ==
    /\ pc = "aborted"
    /\ Len(calls) >= 1
    /\ ~calls[Len(calls)].err
    /\ calls[Len(calls)].status = "failed"
    /\ Eligible \ Called # {}

\* C6: the barrier never makes more than ceil(Timeout/5) poll rounds, and the
\* timeout error comes after exactly that many.
C6_TimeoutAfterCeilRounds ==
    /\ pc = "wait" => rounds <= CeilDiv(Timeout, 5)
    /\ err = ErrTimeout => rounds = CeilDiv(Timeout, 5)

\* C6 witness: timeout 10, two poll rounds, then the timeout error.
C6_Witness ==
    /\ err = ErrTimeout
    /\ Timeout = 10
    /\ rounds = 2
    /\ probed

\* C7: when a barrier ends with the timeout error the run is aborted, no unit
\* of a higher weight has been upgraded, and the upgrades made up to that
\* wave stay made.
C7_TimeoutAbortsRun ==
    err = ErrTimeout =>
        /\ pc = "aborted"
        /\ i \notin passed
        /\ \A n \in 1..Len(calls) : calls[n].wave <= i
        /\ Called = UNION {EligibleAt(w) : w \in 0..i}

\* C7 witness: the barrier of a wave timed out while a unit of a higher weight
\* was eligible.
C7_Witness ==
    /\ err = ErrTimeout
    /\ \E j \in Eligible : deps[j].Weight > i

\* C8: a dry run never enters a barrier and never probes the cluster, makes
\* its release calls in weight-then-declaration order over the eligible units,
\* accepts any status, and can only be aborted after validation by a release
\* call that returned an error.
C8_DryRunSkipsBarrier ==
    DryRun =>
        /\ pc # "wait"
        /\ awaited = {}
        /\ passed = {}
        /\ ~probed
        /\ err \notin {ErrStatus, ErrTimeout}
        /\ \A n \in 1..Len(calls) :
              calls[n].unit \in Eligible
              /\ CalledBefore(n) = {u \in Eligible : Before(u, calls[n].unit)}
        /\ (pc = "aborted" /\ calls # <<>>) => calls[Len(calls)].err
        /\ pc = "completed" => Called = Eligible

\* C8 witness: a completed dry run of two release calls, one of which
\* returned a status other than "deployed".
C8_Witness ==
    /\ DryRun
    /\ pc = "completed"
    /\ Len(calls) >= 2
    /\ \E n \in 1..Len(calls) : calls[n].status = "failed"

\* What makes the inputs invalid for the filter in effect and for the weights.
UnknownFilterName ==
    IF Len(Targets) > 0
    THEN \E n \in Range(Targets) : \A j \in 1..Len(chart) : UsedNameOf(chart[j]) # n
    ELSE \E n \in Range(Excludes) : \A j \in 1..Len(chart) : UsedNameOf(chart[j]) # n

\* Some weight is not a number, or is a negative integer (held in tenths).
BadWeight ==
    \E j \in 1..Len(chart) :
        LET v == values.weight[UsedNameOf(chart[j])]
        IN \/ v.ty \notin {"float64", "json.Number"}
           \/ v.n % 10 = 0 /\ v.n < 0

\* C9: a run aborted by the flag check, by the resolution or by the check of
\* the target and exclude names has made no release call; and no release call
\* is ever made when the filter in effect names no sub-chart or when a weight
\* is a negative integer or not a number.
C9_ValidationBeforeAnyRelease ==
    /\ err \in {ErrBothFilters, ErrGet, ErrCheck} => pc = "aborted" /\ calls = <<>>
    /\ (UnknownFilterName \/ BadWeight) => calls = <<>> /\ pc # "completed"

\* C9 witness: the resolution gave at least one unit, the check of the target
\* names aborted the run, and no release call was made.
C9_Witness ==
    /\ err = ErrCheck
    /\ Len(deps) >= 1
    /\ calls = <<>>

\* C10: with both a target list and an exclude list the run never gets to
\* upgrade anything: it is never in the wave loop and never completes.
C10_BothFiltersAlwaysRejected ==
    BothGiven => pc \notin {"upgrade", "wait", "completed"}

\* The value found for the weight of the sub-chart at position j.
WeightAt(j) == values.weight[IF chart[j].Alias # "" THEN chart[j].Alias ELSE chart[j].Name]

IsWhole(v) == v.ty \in {"float64", "json.Number"} /\ v.n % 10 = 0

\* A weight that is missing or a whole number that is not negative.
MissingOrNatural(v) == v.ty = "missing" \/ (IsWhole(v) /\ v.n >= 0)

\* C11: Get gives every sub-chart its alias as used name when it has one, else
\* its name; the sub-chart is targeted iff its used name is in the target list
\* when there is one, else iff it is not in the exclude list when there is
\* one, else always.
C11_TargetedByUsedName ==
    pc = "got" =>
        /\ Len(deps) = Len(chart)
        /\ \A j \in 1..Len(chart) :
              LET usedName == IF chart[j].Alias # "" THEN chart[j].Alias
                              ELSE chart[j].Name
              IN /\ deps[j].UsedName = usedName
                 /\ deps[j].Targeted =
                       (IF Targets # <<>>
                        THEN \E n \in 1..Len(Targets) : Targets[n] = usedName
                        ELSE IF Excludes # <<>>
                             THEN \A n \in 1..Len(Excludes) : Excludes[n] # usedName
                             ELSE TRUE)

\* C11 witness: targets and excludes are both given; the first sub-chart has
\* an alias, is targeted by its name and excluded by its alias, and is not
\* targeted, while the second one is.
C11_Witness ==
    /\ pc = "got"
    /\ Targets = <<"b", "a">>
    /\ Excludes = <<"x">>
    /\ Len(deps) = 2
    /\ deps[1].Alias = "x"
    /\ ~deps[1].Targeted
    /\ deps[2].Targeted

\* C12: for one name n, the sub-charts Get marks targeted when n is the only
\* target are exactly those it marks not targeted when n is the only exclude.
C12_TargetExcludeComplementary ==
    /\ (pc = "got" /\ Len(Targets) = 1 /\ Excludes = <<>>) =>
          LET excluded == Get(chart, values, <<>>, Targets, "").deps
          IN \A j \in 1..Len(deps) : deps[j].Targeted = ~excluded[j].Targeted
    /\ (pc = "got" /\ Len(Excludes) = 1 /\ Targets = <<>>) =>
          LET targeted == Get(chart, values, Excludes, <<>>, "").deps
          IN \A j \in 1..Len(deps) : deps[j].Targeted = ~targeted[j].Targeted

\* C12 witness: with the only target "a", the first of two sub-charts is
\* targeted and the second is not.
C12_Witness ==
    /\ pc = "got"
    /\ Targets = <<"a">>
    /\ Excludes = <<>>
    /\ Len(deps) = 2
    /\ deps[1].Targeted
    /\ ~deps[2].Targeted

\* C13: a sub-chart that declares no tag is allowed by tags whatever the tags
\* table holds; one that declares tags is allowed iff one of them is a key of
\* the tags table whose value is the boolean true, hence never when the table
\* is empty or absent.
C13_AllowedByTags ==
    pc = "got" =>
        \A j \in 1..Len(chart) :
            /\ deps[j].HasTags = (Len(chart[j].Tags) >= 1)
            /\ Len(chart[j].Tags) = 0 => deps[j].AllowedByTags
            /\ Len(chart[j].Tags) >= 1 =>
                  (deps[j].AllowedByTags <=>
                     \E n \in 1..Len(chart[j].Tags) :
                        /\ chart[j].Tags[n] \in DOMAIN values.tags
                        /\ values.tags[chart[j].Tags[n]].ty = "bool"
                        /\ values.tags[chart[j].Tags[n]].v = "true")
            /\ (Len(chart[j].Tags) >= 1 /\ DOMAIN values.tags = {}) =>
                  ~deps[j].AllowedByTags

\* C13 witness: the tags table sets t to false and u to true; the sub-chart
\* tagged t only is not allowed, the one tagged t and u is.
C13_Witness ==
    /\ pc = "got"
    /\ DOMAIN values.tags = {"t", "u"}
    /\ Len(deps) = 2
    /\ chart[1].Tags = <<"t">>
    /\ ~deps[1].AllowedByTags
    /\ chart[2].Tags = <<"t", "u">>
    /\ deps[2].AllowedByTags

\* C14: only the tags given by -f / --set count: whether a sub-chart is
\* allowed by tags is decided by the provided tags table alone, whatever tags
\* table the values.yaml of the umbrella chart holds.
C14_TagsOnlyFromProvidedValues ==
    pc = "got" =>
        \A j \in 1..Len(chart) :
            deps[j].AllowedByTags =
                \/ Len(chart[j].Tags) = 0
                \/ \E n \in 1..Len(chart[j].Tags) :
                      /\ chart[j].Tags[n] \in DOMAIN providedValues.tags
                      /\ providedValues.tags[chart[j].Tags[n]] = BoolTrue

\* C15: when no weight is given for a sub-chart (and the weights of the others
\* are missing or whole and not negative), Get succeeds and the weight of the
\* sub-chart is 0.
C15_MissingWeightIsZero ==
    (pc # "get" /\ \A j \in 1..Len(chart) : MissingOrNatural(WeightAt(j))) =>
        /\ pc = "got"
        /\ \A j \in 1..Len(chart) : WeightAt(j).ty = "missing" => deps[j].Weight = 0

\* C16: no sub-chart leaves Get with a negative weight; when a weight is a
\* negative integer Get fails, gives no list and nothing is upgraded; when that
\* sub-chart is the first one whose weight is not a natural number the failure
\* names it.
C16_NegativeWeightRejected ==
    /\ \A j \in 1..Len(deps) : deps[j].Weight >= 0
    /\ \A j \in 1..Len(chart) :
          (pc # "get" /\ IsWhole(WeightAt(j)) /\ WeightAt(j).n < 0) =>
              /\ pc = "aborted"
              /\ deps = <<>>
              /\ calls = <<>>
              /\ (\A h \in 1..(j - 1) : IsWhole(WeightAt(h)) /\ WeightAt(h).n >= 0) =>
                    err = "Error computing weight value for sub-chart \""
                          \o (IF chart[j].Alias # "" THEN chart[j].Alias ELSE chart[j].Name)
                          \o "\": value shall be positive or equal to zero"

\* C16 witness: the second sub-chart, which has an alias, has the weight -1
\* and Get failed on it.
C16_Witness ==
    /\ pc = "aborted"
    /\ Len(chart) = 2
    /\ chart[2].Alias = "y"
    /\ WeightAt(1) = [ty |-> "float64", n |-> 10]
    /\ WeightAt(2) = [ty |-> "float64", n |-> -10]
    /\ err = "Error computing weight value for sub-chart \"y\": value shall be positive or equal to zero"

\* C17: when a weight is not an integer (a number with a fraction, or a
\* string), Get fails instead of giving the sub-chart some integer weight.
C17_NonIntegerWeightRejected ==
    \A j \in 1..Len(chart) :
        (pc # "get" /\ WeightAt(j).ty # "missing" /\ ~IsWhole(WeightAt(j))) =>
            /\ pc = "aborted"
            /\ deps = <<>>

\* The flags that enable the sub-chart at position u and disable every other
\* one, from position j on.
RECURSIVE OnlyEnabled(_, _)
OnlyEnabled(u, j) ==
    IF j > Len(deps) THEN ""
    ELSE deps[j].UsedName \o ".enabled=" \o (IF j = u THEN "true" ELSE "false")
         \o "," \o OnlyEnabled(u, j + 1)

\* C18: every release call is made for one sub-chart of the list and its last
\* --set value enables that sub-chart and disables every other sub-chart of
\* the list, those out of scope included.
C18_OnlyCurrentUnitEnabled ==
    \A n \in 1..Len(calls) :
        /\ calls[n].unit \in 1..Len(deps)
        /\ Len(calls[n].sets) >= 2
        /\ calls[n].sets[Len(calls[n].sets)] = OnlyEnabled(calls[n].unit, 1)

\* C18 witness: the first sub-chart has the alias x and is upgraded while the
\* second one is not allowed by tags.
C18_Witness ==
    /\ Len(calls) = 1
    /\ Len(deps) = 2
    /\ ~deps[2].AllowedByTags
    /\ calls[1].sets[Len(calls[1].sets)] = "x.enabled=true,b.enabled=false,"

\* C19: the --set arguments of every release call are the --set values of
\* the user, unchanged and in their order, followed by one more --set that
\* holds the enable/disable flags.
C19_UserSetsThenFlags ==
    \A n \in 1..Len(calls) :
        LET args == calls[n].sets
        IN /\ Len(args) = 2 * (Len(ValuesOpts) + 1)
           /\ \A m \in 1..(Len(ValuesOpts) + 1) : args[2 * m - 1] = "--set"
           /\ \A m \in 1..Len(ValuesOpts) : args[2 * m] = ValuesOpts[m]
           /\ args[Len(args)] = OnlyEnabled(calls[n].unit, 1)

\* C19 witness: two --set values were given, the second of which disables
\* sub-chart a, and sub-chart a was upgraded with them.
C19_Witness ==
    /\ Len(calls) >= 1
    /\ calls[1].sets = <<"--set", "k=2", "--set", "a.enabled=false,k=1",
                         "--set", "a.enabled=true,b.enabled=false,">>

\* A replica count of the status: a count that is not held is 0.
Count(n) == IF n = Absent THEN 0 ELSE n

\* The desired replica count equals the ready, the updated and, when the
\* status holds it, the current replica count.
CountsEqual(w) ==
    /\ Count(w.readyReplicas) = w.replicas
    /\ Count(w.updatedReplicas) = w.replicas
    /\ w.currentReplicas \in {Absent, 0, w.replicas}

\* C20: when the probes made no error, a Deployment or StatefulSet that was
\* probed and exists is reported ready iff its desired replica count equals
\* its ready, updated and (where held) current replica counts.
C20_ReadyIffCountsEqual ==
    (pc = "probed" /\ err = "none") =>
        /\ (deployments = <<"a">> /\ "a" \in DOMAIN cluster.deployment) =>
              (doneDeployments <=> CountsEqual(cluster.deployment["a"]))
        /\ (statefulSets = <<"a">> /\ "a" \in DOMAIN cluster.statefulset) =>
              (doneStatefulSets <=> CountsEqual(cluster.statefulset["a"]))

\* C21: when no kubectl call failed, the jobs probed are reported ready iff
\* every one of them has a succeeded count of at least 1; a count that is
\* absent or 0 makes the result not ready.
C21_JobsReadyIffAllSucceeded ==
    (pc = "probed" /\ err = "none" /\ jobs # <<>>) =>
        /\ doneJobs <=>
              \A n \in 1..Len(jobs) :
                  /\ jobs[n] \in DOMAIN cluster.job
                  /\ cluster.job[jobs[n]].succeeded \notin {Absent, 0}
                  /\ cluster.job[jobs[n]].succeeded >= 1
        /\ (\E n \in 1..Len(jobs) :
                /\ jobs[n] \in DOMAIN cluster.job
                /\ cluster.job[jobs[n]].succeeded \in {Absent, 0}) => ~doneJobs

\* C21 witness: two jobs were probed without error; the first has succeeded,
\* the second holds no succeeded count, and the result is not ready.
C21_Witness ==
    /\ pc = "probed"
    /\ err = "none"
    /\ jobs = <<"a-job", "b-job">>
    /\ cluster.job["a-job"].succeeded >= 1
    /\ cluster.job["b-job"].succeeded = Absent
    /\ ~doneJobs

\* C22: a probe of a list that names a workload the cluster does not hold
\* reports not ready.
C22_NotFoundIsNotReady ==
    pc = "probed" =>
        /\ (\E n \in 1..Len(deployments) :
                deployments[n] \notin DOMAIN cluster.deployment) => ~doneDeployments
        /\ (\E n \in 1..Len(jobs) : jobs[n] \notin DOMAIN cluster.job) => ~doneJobs

\* The workload named n of a kind is held by the cluster and is done: equal
\* replica counts, or a succeeded count of at least 1.
DeploymentDone(n) ==
    n \in DOMAIN cluster.deployment /\ CountsEqual(cluster.deployment[n])

JobDone(n) ==
    n \in DOMAIN cluster.job /\ Count(cluster.job[n].succeeded) >= 1

\* C23: when no kubectl call failed, a probe of a list of workloads of one
\* kind reports ready iff every workload named is done.
C23_ReadyIffEveryWorkloadDone ==
    (pc = "probed" /\ err = "none") =>
        /\ deployments # <<>> =>
              (doneDeployments <=>
                 \A n \in 1..Len(deployments) : DeploymentDone(deployments[n]))
        /\ jobs # <<>> =>
              (doneJobs <=> \A n \in 1..Len(jobs) : JobDone(jobs[n]))

StatefulSetDone(n) ==
    n \in DOMAIN cluster.statefulset /\ CountsEqual(cluster.statefulset[n])

\* C24: when wait() has returned nil for the wave, every Deployment,
\* StatefulSet and Job accumulated for the wave is held by the cluster and
\* done in the state of the cluster at that moment.
C24_BarrierSuccessMeansAllReady ==
    (pc = "completed" /\ 0 \in passed) =>
        /\ \A n \in 1..Len(deployments) : DeploymentDone(deployments[n])
        /\ \A n \in 1..Len(statefulSets) : StatefulSetDone(statefulSets[n])
        /\ \A n \in 1..Len(jobs) : JobDone(jobs[n])

JustSortedUndecodable ==
    /\ calls # <<>>
    /\ LET c == calls[Len(calls)]
       IN /\ ~c.err
          /\ StatusAccepted(c.dryRun, c.status)
          /\ \E q \in 1..Len(c.manifest) : c.manifest[q].kind = "undecodable"
          /\ c.wave = i
          /\ k = c.unit + 1
    /\ i \notin awaited

\* C26: an undecodable document in the manifest of a successful release
\* does not abort the run: it adds no name to the accumulators, the other
\* documents of the manifest are sorted into them, and upgrade() goes on
\* with the barrier due.
C26_UndecodableFragmentSkipped ==
    JustSortedUndecodable =>
        LET c == calls[Len(calls)]
        IN /\ pc = "upgrade"
           /\ err = "none"
           /\ shouldWait
           /\ Decoded(c.manifest, "Deployment") \subseteq Range(deployments)
           /\ Decoded(c.manifest, "StatefulSet") \subseteq Range(statefulSets)
           /\ Decoded(c.manifest, "Job") \subseteq Range(jobs)
           /\ Decoded(c.manifest, "undecodable") \cap
                 (Range(deployments) \cup Range(statefulSets) \cup Range(jobs)) = {}

\* The second sub-chart's manifest, with an undecodable document before a Job
\* and a StatefulSet, has just been sorted after the first one's.
C26_Witness ==
    /\ JustSortedUndecodable
    /\ Len(calls) = 2
    /\ Len(jobs) > 0
    /\ Len(deployments) > 0

\* The number of eligible units that come before unit u.
EligibleBefore(u) == Cardinality({v \in Eligible : Before(v, u)})

\* C28: whatever releases helm lists, the n-th release call is made for the
\* n-th eligible unit in weight then declaration order, under the release
\* name of that unit, and the barriers entered are those of the weights
\* whose eligible units were all upgraded on a real run: the schedule is a
\* function of the dependencies and the flags, in which the listing does
\* not occur.
C28_ListingNeverSchedules ==
    /\ \A n \in 1..Len(calls) :
          /\ calls[n].unit \in Eligible
          /\ EligibleBefore(calls[n].unit) = n - 1
          /\ calls[n].release = deps[calls[n].unit].UsedName
          /\ calls[n].dryRun = DryRun
    /\ awaited \subseteq {w \in 0..i : ~DryRun /\ EligibleAt(w) # {}
                                      /\ EligibleAt(w) \subseteq Called}
    /\ \A w \in 0..(i - 1) : ~DryRun /\ EligibleAt(w) # {} => w \in awaited

\* Of two units upgraded on a real run, helm listed the release of the first
\* and not that of the second, and the barrier of the first was entered.
C28_Witness ==
    /\ Len(calls) = 2
    /\ Len(logged) = 2
    /\ ~logged[1].first
    /\ logged[2].first
    /\ calls[1].wave \in awaited
    /\ calls[1].wave < calls[2].wave

\* Both prefix modes are requested.
BothPrefixes == PrefixReleasesWithNamespace /\ PrefixReleases # ""

\* The release name the flags ask for, for a unit used under the name used.
PrefixedName(used) ==
    IF PrefixReleasesWithNamespace THEN Namespace \o "-" \o used
    ELSE IF PrefixReleases # "" THEN PrefixReleases \o "-" \o used
    ELSE used

\* Every unit, and every release call, bears the release name the flags ask for.
ReleasesNamedAsAsked ==
    /\ \A j \in 1..Len(deps) :
          deps[j].CorrespondingReleaseName = PrefixedName(deps[j].UsedName)
    /\ \A n \in 1..Len(calls) :
          calls[n].release = PrefixedName(deps[calls[n].unit].UsedName)

\* C29: each unit's release name is its used name prefixed by "<namespace>-"
\* when --prefix-releases-with-namespace is set, by "<prefix>-" when
\* --prefix-releases is given, by nothing otherwise; and a run asked for both
\* prefix modes makes no release call: it is aborted before.
C29_PrefixedAndBothRejected ==
    /\ ~BothPrefixes => ReleasesNamedAsAsked
    /\ BothPrefixes => calls = <<>> /\ pc \notin {"upgrade", "wait", "completed"}

\* The run has ended.
Ended == pc \in {"completed", "aborted"}

\* C30: when every call returns, every run ends, Completed or Aborted: the
\* loop on the weights and the polling loop of each barrier are left after
\* finitely many steps, even when the workloads never get ready.
C30_EveryRunEnds == <>Ended

\* A real run has ended on the timeout of the barrier of weight 2 after two
\* polling rounds in which its jobs and stateful sets never got ready, the
\* barrier of weight 0 having succeeded and weight 1 having no unit.
C30_Witness ==
    /\ Ended
    /\ err = ErrTimeout
    /\ i = 2
    /\ rounds = 2
    /\ passed = {0}
    /\ ~doneStatefulSets /\ ~doneJobs

\* The names of a kind in the manifests of the release calls that succeeded
\* for weight w.
WaveNames(w, kind) ==
    UNION {Decoded(calls[n].manifest, kind) :
             n \in {m \in 1..Len(calls) : calls[m].wave = w /\ ~ReleaseFailed(calls[m])}}

\* C31: from the first upgrade of a weight to the end of its barrier, the
\* names the barrier polls are exactly the Deployment, StatefulSet and Job
\* names of the manifests returned by the release calls of that weight: no
\* name of an earlier weight is among them.
C31_BarrierPollsItsWaveOnly ==
    pc \in {"upgrade", "wait"} /\ ~firstInWeight =>
        /\ Range(deployments) = WaveNames(i, "Deployment")
        /\ Range(statefulSets) = WaveNames(i, "StatefulSet")
        /\ Range(jobs) = WaveNames(i, "Job")

\* The barrier of weight 1 polls a Job and a StatefulSet while the release
\* of weight 0 had returned a Deployment, which is not polled again.
C31_Witness ==
    /\ pc = "wait"
    /\ i = 1
    /\ Len(calls) = 2
    /\ WaveNames(0, "Deployment") # {}
    /\ deployments = <<>>
    /\ Len(jobs) = 1 /\ Len(statefulSets) = 1

\* C32: in cmd/helmspray, the barrier of a weight polls every Deployment,
\* StatefulSet and Job named in the statuses of the units upgraded for that
\* weight.
C32_WaitReceivesCollectedStatuses ==
    pc = "wait" =>
        /\ WaveNames(i, "Deployment") \subseteq Range(deployments)
        /\ WaveNames(i, "StatefulSet") \subseteq Range(statefulSets)
        /\ WaveNames(i, "Job") \subseteq Range(jobs)

\* C33: in the namespace-snapshot scheduler, the barrier of a weight awaits
\* every Deployment, StatefulSet and Job of the releases upgraded for that
\* weight, those that were in the namespace before the run included.
C33_BarrierAwaitsTouchedWorkloads ==
    pc = "wait" =>
        \A n \in 1..Len(calls) :
            calls[n].wave = i =>
                /\ Decoded(calls[n].manifest, "Deployment") \subseteq Range(deployments)
                /\ Decoded(calls[n].manifest, "StatefulSet") \subseteq Range(statefulSets)
                /\ Decoded(calls[n].manifest, "Job") \subseteq Range(jobs)

\* C34: within a barrier a kind that was found ready is not probed again and
\* stays ready for the barrier, and the barrier does not go on once each
\* kind has been found ready, in the same round or not.
C34_ReadinessLatchedPerKind ==
    [][pc = "wait" =>
          /\ doneDeployments => ~polled'.deployment
          /\ doneStatefulSets => ~polled'.statefulset
          /\ doneJobs => ~polled'.job
          /\ pc' = "wait" =>
                /\ doneDeployments => doneDeployments'
                /\ doneStatefulSets => doneStatefulSets'
                /\ doneJobs => doneJobs'
                /\ ~(doneDeployments' /\ doneStatefulSets' /\ doneJobs')]_vars

\* The second round of a barrier has probed the Jobs alone, the StatefulSets
\* having been found ready in the first round.
C34_Witness ==
    /\ pc = "wait"
    /\ rounds = 2
    /\ doneStatefulSets
    /\ ~doneJobs
    /\ polled = [deployment |-> FALSE, statefulset |-> FALSE, job |-> TRUE]

\* C35: whatever the timeout, 0 included, the barrier of a weight whose
\* releases made no Deployment, StatefulSet or Job does not end with the
\* timeout error, makes no probe and does not sleep.
C35_EmptyBarrierPassesAtOnce ==
    i \in awaited /\ deployments = <<>> /\ statefulSets = <<>> /\ jobs = <<>> =>
        /\ err # ErrTimeout
        /\ rounds = 0
        /\ polled = NoPolled

\* Some workload is to be polled.
SomethingToPoll == deployments # <<>> \/ statefulSets # <<>> \/ jobs # <<>>

\* C36: when every probe returns an error, the run is not aborted by the
\* error and no kind with names is taken as ready: after each round every
\* such kind has been probed again and is still not done, the barrier is
\* never passed, and it ends with the timeout error after ceil(Timeout/5)
\* rounds.
C36_ProbeErrorIsNotReady ==
    /\ pc = "wait" /\ rounds > 0 =>
          /\ err = "none"
          /\ polled = [deployment |-> deployments # <<>>,
                       statefulset |-> statefulSets # <<>>,
                       job |-> jobs # <<>>]
          /\ doneDeployments = (deployments = <<>>)
          /\ doneStatefulSets = (statefulSets = <<>>)
          /\ doneJobs = (jobs = <<>>)
    /\ SomethingToPoll =>
          /\ passed = {}
          /\ pc \in {"wait", "aborted"}
          /\ pc = "aborted" => err = ErrTimeout /\ rounds = CeilDiv(Timeout, sleepTime)

\* The barrier has ended with the timeout error after two rounds in which the
\* probes of the Deployments and of the Jobs failed.
C36_Witness ==
    /\ pc = "aborted"
    /\ err = ErrTimeout
    /\ rounds = 2
    /\ deployments # <<>> /\ jobs # <<>>
    /\ statefulSets = <<>>

\* C37: no unit has two release calls in a run: a release that failed or
\* was not deployed is not called again, and no unit is upgraded for two
\* weights.
C37_AtMostOneCallPerUnit ==
    \A m, n \in 1..Len(calls) :
        calls[m].unit = calls[n].unit \/ calls[m].release = calls[n].release => m = n

\* A run has ended on the failure of the release of its second unit, in the
\* weight of the first: each was called once.
C37_Witness ==
    /\ pc = "aborted"
    /\ Len(calls) = 2
    /\ ReleaseFailed(calls[2])
    /\ calls[1].wave = calls[2].wave
    /\ Eligible = {1, 2}

\* The dependencies have been resolved and the run is in its loop or before it.
Resolved == pc \in {"list", "upgrade", "wait"}

\* C38: once the dependencies are resolved, no step of the run (the logs of
\* the releases, upgrade, wait) changes a dependency or the --set values of
\* the user.
C38_SchedulingLeavesUnitsAlone ==
    [][Resolved => deps' = deps /\ ValuesOpts' = ValuesOpts]_vars

\* Both weights of a chart of two sub-charts have been upgraded with --set
\* values of the user, and the dependencies still hold the two units.
C38_Witness ==
    /\ pc = "completed"
    /\ Len(ValuesOpts) = 2
    /\ Len(calls) = 2
    /\ calls[1].wave = 0 /\ calls[2].wave = 1
    /\ \A j \in 1..2 : deps[j].Targeted /\ deps[j].Weight = j - 1

\* The run is in its loop and no unit is both targeted and allowed by tags.
NothingToUpgrade == pc \in {"upgrade", "wait"} /\ Eligible = {}

\* C39: a run that gets to its loop with no dependency, or with none that is
\* both targeted and allowed by tags, makes no release call, no probe and no
\* barrier, and ends completed.
C39_NothingToUpgradeCompletes ==
    /\ [](Eligible = {} /\ pc \in {"upgrade", "wait", "completed"} =>
             /\ calls = <<>>
             /\ ~probed
             /\ awaited = {}
             /\ pc # "wait"
             /\ err = "none")
    /\ (NothingToUpgrade ~> pc = "completed")

\* A run on a chart of two sub-charts, neither allowed by tags, has completed
\* after the weights 0 and 1.
C39_Witness ==
    /\ pc = "completed"
    /\ Len(deps) = 2
    /\ Eligible = {}
    /\ visited = <<0, 1>>
    /\ calls = <<>>

====
